---------------------------- MODULE Spec2Model ----------------------------
(***************************************************************************)
(* The Time-Traveler Codex API (src/main.py): a content service over a     *)
(* document store with six collections.  The model keeps the store, the    *)
(* store handle, the response of the last completed call (sequential       *)
(* execution) and, for overlapping calls, one frame per worker holding the *)
(* position of its handler between two store calls.                        *)
(*                                                                         *)
(* Store calls succeed, except the styles lookup of get_all_content, whose *)
(* failure the handler catches.                                            *)
(*                                                                         *)
(* A document is a function from field names to values.  A collection is a *)
(* bag of documents: the store generates an opaque identifier per insert,  *)
(* so equal payloads inserted twice are two documents (two copies in the   *)
(* bag), and a collection has no semantic order.  Floats are written as    *)
(* strings ("0.6").                                                        *)
(***************************************************************************)
EXTENDS Bags, FiniteSets, Integers, Sequences, TLC

VARIABLES
    db,          \* the six collections of the store: collection name -> bag of documents
    db_is_none,  \* TRUE when the store handle `db` is None (no store configured)
    last,        \* the response of the most recent completed call (sequential execution)
    frames,      \* overlapping execution: worker -> frame of the call it is running
    db0          \* overlapping execution: the store when the overlapping calls began

vars == <<db, db_is_none, last, frames, db0>>

---------------------------------------------------------------------------
(* Bounds of the model *)

\* the generic create endpoints are called while the era, project, skill and
\* achievement collections together hold fewer documents than this
MaxDocs == 2
\* how many copies of one document a pre-existing profile collection may hold
MaxInit == 1

---------------------------------------------------------------------------
(* Documents and the store *)

Collections == {"era", "project", "skill", "achievement", "profile", "styles"}

\* Python's None (content["profile"] when there is no profile)
Null == [null |-> "null"]

\* the filter {} of delete_many({}) / count_documents({})
EmptyFilter == [f \in {} |-> ""]

\* the filter {"key": "global"}
GlobalFilter == [key |-> "global"]

\* pymongo filter semantics for equality filters: every field of the filter is
\* present in the document with the same value
Matches(d, flt) == \A f \in DOMAIN flt : f \in DOMAIN d /\ d[f] = flt[f]

\* the documents of bag B that satisfy / do not satisfy the filter
Matching(B, flt) == [d \in {e \in BagToSet(B) : Matches(e, flt)} |-> B[d]]

NotMatching(B, flt) == [d \in {e \in BagToSet(B) : ~Matches(e, flt)} |-> B[d]]

\* db[coll].delete_many(flt)
delete_many(store, coll, flt) == [store EXCEPT ![coll] = NotMatching(@, flt)]

\* db[coll].count_documents(flt)
count_documents(store, coll, flt) == BagCardinality(Matching(store[coll], flt))

\* list(db[coll].find(flt).limit(1)): the possible results, each a set holding
\* at most one document (which one the store returns first is not fixed)
find_limit_1(store, coll, flt) ==
    IF Matching(store[coll], flt) = EmptyBag
    THEN {{}}
    ELSE {{d} : d \in BagToSet(Matching(store[coll], flt))}

\* create_document(collection_name, data): inserts the payload verbatim as one
\* new document (database.py is not part of the sources; behaviour from the
\* specification, section 4.1)
create_document(store, coll, data) == [store EXCEPT ![coll] = @ (+) SetToBag({data})]

\* get_documents(collection_name): all documents of the collection
get_documents(store, coll) == store[coll]

EmptyStore == [c \in Collections |-> EmptyBag]

\* number of documents in a collection
Count(store, coll) == BagCardinality(store[coll])

---------------------------------------------------------------------------
(* The fixed demo records of seed_demo *)

eras ==
    << [key |-> "ancient", name |-> "Ancient Civilization Era", theme |-> "ancient",
        description |-> "Desert ruins under golden sunlight."],
       [key |-> "medieval", name |-> "Medieval Arcane Era", theme |-> "medieval",
        description |-> "Arcane library of glowing runes."],
       [key |-> "industrial", name |-> "Industrial Revolution", theme |-> "industrial",
        description |-> "Steam, gears and copper pipes."],
       [key |-> "cyber", name |-> "Cyber Age (2080)", theme |-> "cyber",
        description |-> "Neon holographic interfaces."],
       [key |-> "cosmic", name |-> "Cosmic Future", theme |-> "cosmic",
        description |-> "Deep space and energy spheres."] >>

demo_projects ==
    << [title |-> "Solar Cartographer", era_key |-> "ancient",
        subtitle |-> "Mapping constellations in desert skies",
        description |-> "A data-vis project styled as floating artifacts.",
        problem |-> "Scattered star data.", solution |-> "Unified visual cartography.",
        result |-> "Faster insights.", tech_stack |-> <<"D3.js", "Python">>,
        media |-> [image |-> "", video |-> "", model |-> ""]],
       [title |-> "Grimoire Engine", era_key |-> "medieval",
        subtitle |-> "Generative spellbook UI",
        description |-> "Floating spellbooks reveal interactive pages.",
        tech_stack |-> <<"React", "Framer Motion">>],
       [title |-> "CopperWorks", era_key |-> "industrial",
        subtitle |-> "Blueprint renderer",
        description |-> "Mechanical blueprints unfold with details.",
        tech_stack |-> <<"Three.js", "Node">>],
       [title |-> "Neon Nexus", era_key |-> "cyber",
        subtitle |-> "Holographic dashboard",
        description |-> "Glowing tiles materialize project windows.",
        tech_stack |-> <<"React", "WebGL">>],
       [title |-> "Cosmic Lattice", era_key |-> "cosmic",
        subtitle |-> "Orbital knowledge base",
        description |-> "Energy spheres open cosmic info panels.",
        tech_stack |-> <<"Three.js", "GSAP">>] >>

skills ==
    << [name |-> "React", level |-> 90, category |-> "Frontend", icon |-> "Atom"],
       [name |-> "Three.js", level |-> 80, category |-> "3D", icon |-> "Cube"],
       [name |-> "FastAPI", level |-> 85, category |-> "Backend", icon |-> "Server"] >>

achievements ==
    << [title |-> "Hackathon Winner", description |-> "Built an AR prototype in 24h",
        year |-> 2023, capsule |-> "orbit"] >>

profile ==
    [name |-> "The Time Traveler", role |-> "Creative Technologist", photo_url |-> "",
     bio |-> "Jumping across eras to craft immersive experiences.",
     timeline |-> << [year |-> 2018, title |-> "First Expedition",
                      text |-> "Discovered the Ancient Codex"],
                     [year |-> 2022, title |-> "Cyber Age", text |-> "Built neon universes"] >>,
     links |-> << [label |-> "GitHub", url |-> "https://github.com/"],
                  [label |-> "LinkedIn", url |-> "https://linkedin.com/"] >>]

\* the styles document seed_demo writes
seed_styles == [key |-> "global", theme |-> "cyber", glow |-> "0.7"]

\* the literal default of get_all_content
default_styles == [key |-> "global", theme |-> "cyber", glow |-> "0.6"]

---------------------------------------------------------------------------
(* Request payloads (AnyPayload.data) the model draws from *)

EraPayloads == {[key |-> "custom", name |-> "Custom Era"]}

ProjectPayloads == {demo_projects[1], [title |-> "Side Quest", era_key |-> "custom"]}

SkillPayloads == {[name |-> "Go", level |-> 70, category |-> "Backend"]}

AchievementPayloads == {[title |-> "Speaker", capsule |-> "glow"]}

ProfilePayloads == {[name |-> "Ada", role |-> "Engineer"], [name |-> "Bob", role |-> "Designer"]}

\* no key, a foreign key, and the key "global" itself
StylesPayloads ==
    {[theme |-> "x"], [key |-> "nonsense", theme |-> "x"],
     [key |-> "global", theme |-> "retro", glow |-> "0.9"]}

---------------------------------------------------------------------------
(* The store calls of the handlers, one definition per call *)

\* mutant of profile_delete: the delete is forgotten
profile_delete_nothing(store) == store

\* set_profile_api: db["profile"].delete_many({})
profile_delete(store) == delete_many(store, "profile", EmptyFilter)

\* mutant of profile_insert: an atomic replace, the insert clears the collection itself
profile_insert_replace(store, data) ==
    create_document(delete_many(store, "profile", EmptyFilter), "profile", data)

\* set_profile_api: create_document("profile", payload.data)
profile_insert(store, data) == create_document(store, "profile", data)

\* mutant of styles_delete: the filter is dropped and every styles document goes
styles_delete_all(store) == delete_many(store, "styles", EmptyFilter)

\* set_styles_api: db["styles"].delete_many({"key": "global"})
styles_delete(store) == delete_many(store, "styles", GlobalFilter)

\* mutant of pin_key: setdefault, a key supplied by the caller is kept
pin_key_if_absent(data) ==
    IF "key" \in DOMAIN data THEN data
    ELSE [f \in DOMAIN data \cup {"key"} |-> IF f = "key" THEN "global" ELSE data[f]]

\* set_styles_api: payload.data["key"] = "global"
pin_key(data) ==
    [f \in DOMAIN data \cup {"key"} |-> IF f = "key" THEN "global" ELSE data[f]]

\* set_styles_api: create_document("styles", payload.data), the key already pinned
styles_insert(store, data) == create_document(store, "styles", data)

\* mutant of seed_guard: the guard counts the project collection
seed_guard_project(store) == count_documents(store, "project", EmptyFilter) > 0

\* mutant of seed_guard: the guard looks at every seeded collection
seed_guard_any(store) ==
    \E c \in {"era", "project", "skill", "achievement", "profile"} :
        count_documents(store, c, EmptyFilter) > 0

\* seed_demo: db["era"].count_documents({}) > 0
seed_guard(store) == count_documents(store, "era", EmptyFilter) > 0

\* mutant of seed_insert: insert-if-absent, an equal document is not added again
seed_insert_if_absent(store, coll, doc) ==
    IF CopiesIn(doc, store[coll]) > 0 THEN store ELSE create_document(store, coll, doc)

\* seed_demo: one create_document(coll, x) of the insert loops
seed_insert(store, coll, doc) == create_document(store, coll, doc)

\* seed_demo: for x in docs: create_document(coll, x)
RECURSIVE insert_all(_, _, _)
insert_all(store, coll, docs) ==
    IF docs = << >> THEN store
    ELSE insert_all(seed_insert(store, coll, Head(docs)), coll, Tail(docs))

\* seed_demo: the five insert passes before the styles step, in the code's order
seed_inserts(store) ==
    seed_insert(
        insert_all(
            insert_all(
                insert_all(insert_all(store, "era", eras), "project", demo_projects),
                "skill", skills),
            "achievement", achievements),
        "profile", profile)

\* seed_demo: db["styles"].delete_many({"key": "global"})
seed_styles_delete(store) == delete_many(store, "styles", GlobalFilter)

\* seed_demo: create_document("styles", {"key": "global", "theme": "cyber", "glow": 0.7})
seed_styles_insert(store) == create_document(store, "styles", seed_styles)

\* get_all_content: profiles[0] if profiles else None; which document comes
\* first when there are several is up to the store
first_profile(profiles) ==
    IF profiles = EmptyBag THEN {Null} ELSE BagToSet(profiles)

\* mutant of styles_or_default: no fallback, the initial {} stays in the bundle
styles_or_empty(store, raises) ==
    IF raises THEN {EmptyFilter}
    ELSE {IF found = {} THEN EmptyFilter ELSE CHOOSE d \in found : TRUE :
            found \in find_limit_1(store, "styles", GlobalFilter)}

\* get_all_content: the styles lookup with its fallback; `raises` says whether
\* the store raised inside the try block
styles_or_default(store, raises) ==
    IF raises THEN {default_styles}
    ELSE {IF found = {} THEN default_styles ELSE CHOOSE d \in found : TRUE :
            found \in find_limit_1(store, "styles", GlobalFilter)}

\* get_all_content: the content dict before any read
InitialContent ==
    [eras |-> EmptyBag, projects |-> EmptyBag, skills |-> EmptyBag,
     achievements |-> EmptyBag, profile |-> Null, styles |-> EmptyFilter]

\* get_all_content: the bundles one call can return on `store`
contents(store, raises) ==
    {[eras |-> get_documents(store, "era"),
      projects |-> get_documents(store, "project"),
      skills |-> get_documents(store, "skill"),
      achievements |-> get_documents(store, "achievement"),
      profile |-> p,
      styles |-> s] :
        p \in first_profile(get_documents(store, "profile")),
        s \in styles_or_default(store, raises)}

\* set_profile_api, start to end, on the store
set_profile(store, data) == profile_insert(profile_delete(store), data)

\* set_styles_api, start to end, on the store
set_styles(store, data) == styles_insert(styles_delete(store), pin_key(data))

\* seed_demo past its guard, start to end, on the store
seed(store) == seed_styles_insert(seed_styles_delete(seed_inserts(store)))

---------------------------------------------------------------------------
(* Responses *)

\* what a call answered: the endpoint, its payload, whether the store raised
\* in the styles lookup, the status and (for get_all_content) the bundle
Response(op, arg, status) ==
    [op |-> op, arg |-> arg, fault |-> FALSE, status |-> status, content |-> InitialContent]

\* HTTPException(status_code=500, detail="Database not available")
Unavailable(op, arg) == Response(op, arg, "500")

NoCall == Response("none", Null, "none")

---------------------------------------------------------------------------
(* Sequential execution: every handler runs to completion before the next *)

seq_frame == UNCHANGED <<db_is_none, frames, db0>>

\* the generic create endpoints: create_document(coll, payload.data)
create(op, coll, payload) ==
    /\ Count(db, "era") + Count(db, "project") + Count(db, "skill")
         + Count(db, "achievement") < MaxDocs
    /\ IF db_is_none
       THEN /\ last' = Unavailable(op, payload)
            /\ UNCHANGED db
       ELSE /\ db' = create_document(db, coll, payload)
            /\ last' = Response(op, payload, "inserted")
    /\ seq_frame

create_era == \E payload \in EraPayloads : create("create_era", "era", payload)

create_project_api ==
    \E payload \in ProjectPayloads : create("create_project", "project", payload)

create_skill_api == \E payload \in SkillPayloads : create("create_skill", "skill", payload)

create_achievement_api ==
    \E payload \in AchievementPayloads :
        create("create_achievement", "achievement", payload)

set_profile_api ==
    \E payload \in ProfilePayloads :
        /\ IF db_is_none
           THEN /\ last' = Unavailable("set_profile", payload)
                /\ UNCHANGED db
           ELSE /\ db' = set_profile(db, payload)
                /\ last' = Response("set_profile", payload, "inserted")
        /\ seq_frame

set_styles_api ==
    \E payload \in StylesPayloads :
        /\ IF db_is_none
           THEN /\ last' = Unavailable("set_styles", payload)
                /\ UNCHANGED db
           ELSE /\ db' = set_styles(db, payload)
                /\ last' = Response("set_styles", payload, "inserted")
        /\ seq_frame

seed_demo ==
    /\ IF db_is_none
       THEN /\ last' = Unavailable("seed", Null)
            /\ UNCHANGED db
       ELSE IF seed_guard(db)
            THEN /\ last' = Response("seed", Null, "already-seeded")
                 /\ UNCHANGED db
            ELSE /\ db' = seed(db)
                 /\ last' = Response("seed", Null, "seeded")
    /\ seq_frame

get_all_content ==
    /\ IF db_is_none
       THEN last' = Unavailable("get_all_content", Null)
       ELSE \E raises \in BOOLEAN :
                \E c \in contents(db, raises) :
                    last' = [Response("get_all_content", Null, "ok") EXCEPT
                                !.fault = raises, !.content = c]
    /\ UNCHANGED db
    /\ seq_frame

Next ==
    \/ create_era
    \/ create_project_api
    \/ create_skill_api
    \/ create_achievement_api
    \/ set_profile_api
    \/ set_styles_api
    \/ seed_demo
    \/ get_all_content

Procs == {"w1", "w2"}

IdleFrame == [op |-> "none", arg |-> Null, pc |-> "idle", i |-> 0, fault |-> FALSE,
              status |-> "none", content |-> InitialContent]

\* the service starts on an empty store, or with no store configured
Init ==
    /\ db = EmptyStore
    /\ db_is_none \in BOOLEAN
    /\ last = NoCall
    /\ frames = [p \in Procs |-> IdleFrame]
    /\ db0 = EmptyStore

Spec == Init /\ [][Next]_vars

---------------------------------------------------------------------------
(* The service attached to a store that already holds profile and styles   *)
(* documents (written by an earlier run or by another client of the store) *)

\* the bags over S with at most n copies of each element
BagsOver(S, n) ==
    {[d \in {e \in S : f[e] > 0} |-> f[d]] : f \in [S -> 0..n]}

\* styles documents under another key, or under none
OtherStyles == {[key |-> "nonsense", theme |-> "x"]}

InitAny ==
    /\ \E profiles \in BagsOver(ProfilePayloads, MaxInit) :
         \E others \in BagsOver(OtherStyles, 1) :
           \E globals \in BagsOver({seed_styles}, 1) :
             db = [EmptyStore EXCEPT !["profile"] = profiles,
                                     !["styles"] = others (+) globals]
    /\ db_is_none = FALSE
    /\ last = NoCall
    /\ frames = [p \in Procs |-> IdleFrame]
    /\ db0 = db

SpecAny == InitAny /\ [][Next]_vars

---------------------------------------------------------------------------
(* Properties of sequential execution *)

\* the documents of a sequence, as a bag
RECURSIVE SeqToBag(_)
SeqToBag(docs) ==
    IF docs = << >> THEN EmptyBag ELSE SetToBag({Head(docs)}) (+) SeqToBag(Tail(docs))

\* the documents under key "global" in the styles collection
GlobalStyles(store) == Matching(store["styles"], GlobalFilter)

\* C1: under sequential execution, from any content of the profile collection,
\* after a completed set_profile call the profile collection holds exactly one
\* document, the payload of that (most recent) call.
C1_SetProfileSingleton ==
    (last.op = "set_profile" /\ last.status = "inserted")
        => /\ Count(db, "profile") = 1
           /\ db["profile"] = SetToBag({last.arg})

\* C1 witness: set_profile has completed on a store whose profile collection
\* held several documents, and left exactly its payload.
C1_Witness ==
    /\ last.op = "set_profile"
    /\ last.status = "inserted"
    /\ Count(db0, "profile") >= 2
    /\ db["profile"] = SetToBag({last.arg})

\* C2: in every state reachable from the empty store by sequential calls the
\* profile collection holds 0 or 1 documents.
C2_ProfileAtMostOne == Count(db, "profile") <= 1

\* C3: a seed call made while the era collection is non-empty answers
\* "already-seeded" and changes no collection; a seed on the empty store answers
\* "seeded" and leaves 5 eras; a seed right after a seeding pass changes nothing.
C3_SeedIdempotent ==
    [][(seed_demo /\ ~db_is_none) =>
         /\ Count(db, "era") > 0 => (db' = db /\ last'.status = "already-seeded")
         /\ db = EmptyStore => (last'.status = "seeded" /\ Count(db', "era") = 5)
         /\ (last.op = "seed" /\ last.status = "seeded")
              => (db' = db /\ Count(db', "era") = 5 /\ last'.status = "already-seeded")]_vars

\* C3 witness: the second of two seed calls on the empty store has answered
\* "already-seeded" and the store is what one seeding pass leaves.
C3_Witness ==
    /\ last.op = "seed"
    /\ last.status = "already-seeded"
    /\ Count(db, "era") = 5
    /\ db["era"] = SeqToBag(eras)
    /\ db["project"] = SeqToBag(demo_projects)
    /\ db["skill"] = SeqToBag(skills)
    /\ db["achievement"] = SeqToBag(achievements)
    /\ db["profile"] = SetToBag({profile})
    /\ db["styles"] = SetToBag({seed_styles})

\* C4: the styles collection never holds more than one document under key
\* "global", and no step (set_styles, seed's styles step, any other call)
\* removes or adds a styles document under another key.
C4_GlobalStylesAtMostOne ==
    /\ [](BagCardinality(GlobalStyles(db)) <= 1)
    /\ [][NotMatching(db'["styles"], GlobalFilter)
            = NotMatching(db["styles"], GlobalFilter)]_vars

\* C4 witness: set_styles or seed has replaced the global styles document of
\* a store that also holds a styles document under another key.
C4_Witness ==
    /\ last.op \in {"set_styles", "seed"}
    /\ last.status \in {"inserted", "seeded"}
    /\ BagCardinality(GlobalStyles(db0)) = 1
    /\ BagCardinality(NotMatching(db0["styles"], GlobalFilter)) = 1
    /\ BagCardinality(GlobalStyles(db)) = 1
    /\ GlobalStyles(db) # GlobalStyles(db0)
    /\ BagCardinality(NotMatching(db["styles"], GlobalFilter)) = 1

\* C5: after set_styles the one document under key "global" has the fields of
\* the payload plus key, every field but key with the payload's value, and the
\* documents under other keys are those the store held before.
C5_StylesKeyPinned ==
    (last.op = "set_styles" /\ last.status = "inserted")
        => /\ BagCardinality(GlobalStyles(db)) = 1
           /\ \A d \in BagToSet(GlobalStyles(db)) :
                /\ d.key = "global"
                /\ DOMAIN d = DOMAIN last.arg \cup {"key"}
                /\ \A f \in DOMAIN last.arg \ {"key"} : d[f] = last.arg[f]
           /\ NotMatching(db["styles"], GlobalFilter)
                = NotMatching(db0["styles"], GlobalFilter)

\* C5 witness: set_styles was called with a payload carrying a foreign key.
C5_Witness ==
    /\ last.op = "set_styles"
    /\ last.status = "inserted"
    /\ "key" \in DOMAIN last.arg
    /\ last.arg.key = "nonsense"
    /\ \E d \in BagToSet(GlobalStyles(db)) : d.theme = last.arg.theme

\* C6: get_all_content answers the default styles when no document under key
\* "global" exists or the lookup raised, the stored global document otherwise,
\* and changes no collection.
C6_StylesDefaultFallback ==
    /\ []((last.op = "get_all_content" /\ last.status = "ok") =>
            /\ (GlobalStyles(db) = EmptyBag \/ last.fault)
                  => last.content.styles = default_styles
            /\ (GlobalStyles(db) # EmptyBag /\ ~last.fault)
                  => last.content.styles \in BagToSet(GlobalStyles(db)))
    /\ [][(last'.op = "get_all_content" /\ last' # last) => db' = db]_vars

\* C6 witness: get_all_content answered the default on a styles collection
\* that holds only a document under another key.
C6_Witness ==
    /\ last.op = "get_all_content"
    /\ last.status = "ok"
    /\ ~last.fault
    /\ Count(db, "styles") = 1
    /\ GlobalStyles(db) = EmptyBag
    /\ last.content.styles = default_styles

\* C7: a seed call made with the era collection empty answers "seeded" and adds
\* the 5 eras, 5 demo projects, 3 skills, 1 achievement and 1 profile to whatever
\* project, skill, achievement and profile already hold.
C7_ScopedSeedGap ==
    [][(seed_demo /\ ~db_is_none /\ Count(db, "era") = 0) =>
         /\ last'.status = "seeded"
         /\ db'["era"] = SeqToBag(eras)
         /\ Count(db', "era") = 5
         /\ db'["project"] = db["project"] (+) SeqToBag(demo_projects)
         /\ Count(db', "project") = Count(db, "project") + 5
         /\ db'["skill"] = db["skill"] (+) SeqToBag(skills)
         /\ Count(db', "skill") = Count(db, "skill") + 3
         /\ db'["achievement"] = db["achievement"] (+) SeqToBag(achievements)
         /\ Count(db', "achievement") = Count(db, "achievement") + 1
         /\ db'["profile"] = db["profile"] (+) SetToBag({profile})
         /\ Count(db', "profile") = Count(db, "profile") + 1]_vars

\* C7 witness: seed ran on a store that already held a demo project and now
\* holds it twice.
C7_Witness ==
    /\ last.op = "seed"
    /\ last.status = "seeded"
    /\ CopiesIn(demo_projects[1], db["project"]) = 2
    /\ Count(db, "project") = 6

---------------------------------------------------------------------------
(* Overlapping execution: two workers each run one call; the service takes *)
(* no lock, so the store calls of the two handlers interleave freely.  One *)
(* step is one store call of one handler.                                  *)

\* the calls a worker may be given: endpoint and payload
Calls ==
    {<<"create_era", d>> : d \in EraPayloads}
        \cup {<<"create_project", d>> : d \in ProjectPayloads}
        \cup {<<"create_skill", d>> : d \in SkillPayloads}
        \cup {<<"create_achievement", d>> : d \in AchievementPayloads}
        \cup {<<"set_profile", d>> : d \in ProfilePayloads}
        \cup {<<"set_styles", d>> : d \in StylesPayloads}
        \cup {<<"seed", Null>>, <<"get_all_content", Null>>}

\* where each handler stands before its first store call
FirstPc(op) ==
    CASE op = "set_profile" -> "profile_delete"
      [] op = "set_styles" -> "styles_delete"
      [] op = "seed" -> "seed_check"
      [] op = "get_all_content" -> "get_eras"
      [] OTHER -> "create"

\* the collection of a generic create endpoint
CreateCollection(op) ==
    CASE op = "create_era" -> "era"
      [] op = "create_project" -> "project"
      [] op = "create_skill" -> "skill"
      [] OTHER -> "achievement"

\* the insert loops of seed_demo: records and collection per loop, and the
\* position after the loop
SeedDocs(pc) ==
    CASE pc = "seed_eras" -> eras
      [] pc = "seed_projects" -> demo_projects
      [] pc = "seed_skills" -> skills
      [] OTHER -> achievements

SeedCollection(pc) ==
    CASE pc = "seed_eras" -> "era"
      [] pc = "seed_projects" -> "project"
      [] pc = "seed_skills" -> "skill"
      [] OTHER -> "achievement"

SeedAfter(pc) ==
    CASE pc = "seed_eras" -> "seed_projects"
      [] pc = "seed_projects" -> "seed_skills"
      [] pc = "seed_skills" -> "seed_achievements"
      [] OTHER -> "seed_profile"

\* the four list reads of get_all_content: field, collection, next position
ReadField(pc) ==
    CASE pc = "get_eras" -> "eras"
      [] pc = "get_projects" -> "projects"
      [] pc = "get_skills" -> "skills"
      [] OTHER -> "achievements"

ReadCollection(pc) ==
    CASE pc = "get_eras" -> "era"
      [] pc = "get_projects" -> "project"
      [] pc = "get_skills" -> "skill"
      [] OTHER -> "achievement"

ReadAfter(pc) ==
    CASE pc = "get_eras" -> "get_projects"
      [] pc = "get_projects" -> "get_skills"
      [] pc = "get_skills" -> "get_achievements"
      [] OTHER -> "get_profile"

conc_frame == UNCHANGED <<db_is_none, last, db0>>

\* worker p moves to position pc
Goto(p, pc) == frames' = [frames EXCEPT ![p].pc = pc]

\* worker p returns with the given status
Return(p, status) == frames' = [frames EXCEPT ![p].pc = "done", ![p].status = status]

\* a request arrives: the handler starts, and raises at once without a store
receive(p) ==
    /\ frames[p].pc = "idle"
    /\ \E call \in Calls :
         frames' = [frames EXCEPT ![p] =
                      [IdleFrame EXCEPT !.op = call[1], !.arg = call[2],
                                        !.pc = IF db_is_none THEN "done" ELSE FirstPc(call[1]),
                                        !.status = IF db_is_none THEN "500" ELSE "none"]]
    /\ UNCHANGED db
    /\ conc_frame

\* create_era, create_project_api, create_skill_api, create_achievement_api
create_api_insert(p) ==
    /\ frames[p].pc = "create"
    /\ db' = create_document(db, CreateCollection(frames[p].op), frames[p].arg)
    /\ Return(p, "inserted")
    /\ conc_frame

set_profile_api_delete(p) ==
    /\ frames[p].pc = "profile_delete"
    /\ db' = profile_delete(db)
    /\ Goto(p, "profile_insert")
    /\ conc_frame

set_profile_api_insert(p) ==
    /\ frames[p].pc = "profile_insert"
    /\ db' = profile_insert(db, frames[p].arg)
    /\ Return(p, "inserted")
    /\ conc_frame

set_styles_api_delete(p) ==
    /\ frames[p].pc = "styles_delete"
    /\ db' = styles_delete(db)
    /\ Goto(p, "styles_insert")
    /\ conc_frame

\* the key is pinned on the handler's own payload, then the insert
set_styles_api_insert(p) ==
    /\ frames[p].pc = "styles_insert"
    /\ db' = styles_insert(db, pin_key(frames[p].arg))
    /\ Return(p, "inserted")
    /\ conc_frame

seed_demo_check(p) ==
    /\ frames[p].pc = "seed_check"
    /\ IF seed_guard(db)
       THEN Return(p, "already-seeded")
       ELSE frames' = [frames EXCEPT ![p].pc = "seed_eras", ![p].i = 1]
    /\ UNCHANGED db
    /\ conc_frame

\* one create_document of the era, project, skill or achievement loop
seed_demo_insert(p) ==
    /\ frames[p].pc \in {"seed_eras", "seed_projects", "seed_skills", "seed_achievements"}
    /\ db' = seed_insert(db, SeedCollection(frames[p].pc), SeedDocs(frames[p].pc)[frames[p].i])
    /\ IF frames[p].i < Len(SeedDocs(frames[p].pc))
       THEN frames' = [frames EXCEPT ![p].i = @ + 1]
       ELSE frames' = [frames EXCEPT ![p].pc = SeedAfter(frames[p].pc), ![p].i = 1]
    /\ conc_frame

seed_demo_profile(p) ==
    /\ frames[p].pc = "seed_profile"
    /\ db' = seed_insert(db, "profile", profile)
    /\ Goto(p, "seed_styles_delete")
    /\ conc_frame

seed_demo_styles_delete(p) ==
    /\ frames[p].pc = "seed_styles_delete"
    /\ db' = seed_styles_delete(db)
    /\ Goto(p, "seed_styles_insert")
    /\ conc_frame

seed_demo_styles_insert(p) ==
    /\ frames[p].pc = "seed_styles_insert"
    /\ db' = seed_styles_insert(db)
    /\ Return(p, "seeded")
    /\ conc_frame

\* content["eras"|"projects"|"skills"|"achievements"] = get_documents(...)
get_all_content_list(p) ==
    /\ frames[p].pc \in {"get_eras", "get_projects", "get_skills", "get_achievements"}
    /\ frames' = [frames EXCEPT
                    ![p].content[ReadField(frames[p].pc)] =
                        get_documents(db, ReadCollection(frames[p].pc)),
                    ![p].pc = ReadAfter(frames[p].pc)]
    /\ UNCHANGED db
    /\ conc_frame

get_all_content_profile(p) ==
    /\ frames[p].pc = "get_profile"
    /\ \E d \in first_profile(get_documents(db, "profile")) :
         frames' = [frames EXCEPT ![p].content.profile = d, ![p].pc = "get_styles"]
    /\ UNCHANGED db
    /\ conc_frame

get_all_content_styles(p) ==
    /\ frames[p].pc = "get_styles"
    /\ \E raises \in BOOLEAN :
         \E d \in styles_or_default(db, raises) :
           frames' = [frames EXCEPT ![p].content.styles = d, ![p].fault = raises,
                                    ![p].pc = "done", ![p].status = "ok"]
    /\ UNCHANGED db
    /\ conc_frame

NextConc ==
    \E p \in Procs :
        \/ receive(p)
        \/ create_api_insert(p)
        \/ set_profile_api_delete(p)
        \/ set_profile_api_insert(p)
        \/ set_styles_api_delete(p)
        \/ set_styles_api_insert(p)
        \/ seed_demo_check(p)
        \/ seed_demo_insert(p)
        \/ seed_demo_profile(p)
        \/ seed_demo_styles_delete(p)
        \/ seed_demo_styles_insert(p)
        \/ get_all_content_list(p)
        \/ get_all_content_profile(p)
        \/ get_all_content_styles(p)

\* stores the service reaches by sequential calls, on which the two
\* overlapping calls begin
InitStores ==
    LET a == {EmptyStore, seed(EmptyStore)}
        b == a \cup {set_profile(st, d) : st \in a, d \in {[name |-> "Ada", role |-> "Engineer"]}}
    IN  b \cup {set_styles(st, d) : st \in b, d \in {[theme |-> "x"]}}

InitConc ==
    /\ db \in InitStores
    /\ db_is_none \in BOOLEAN
    /\ db_is_none => db = EmptyStore
    /\ last = NoCall
    /\ frames = [p \in Procs |-> IdleFrame]
    /\ db0 = db

SpecConc == InitConc /\ [][NextConc]_vars

---------------------------------------------------------------------------
(* Properties of overlapping execution *)

\* the singleton documents of the collection a singleton writer replaces
Singletons(store, op) ==
    IF op = "set_profile" THEN store["profile"] ELSE GlobalStyles(store)

\* the position of a singleton writer between its delete and its insert
Between(op) == IF op = "set_profile" THEN "profile_insert" ELSE "styles_insert"

WritersLeaveOneOrTwo ==
    \A op \in {"set_profile", "set_styles"} :
        (\A p \in Procs : /\ frames[p].op = op
                          /\ frames[p].pc = "done"
                          /\ frames[p].status = "inserted")
            => BagCardinality(Singletons(db, op)) \in {1, 2}

C9_ReaderSeesTransientEmpty ==
    /\ [][\A p, q \in Procs :
            (/\ frames[p].op = "set_profile" /\ frames[p].pc = "profile_insert"
             /\ Count(db0, "profile") > 0
             /\ frames[q].op = "get_all_content" /\ frames[q].pc = "get_profile"
             /\ frames'[q].pc # "get_profile")
                => frames'[q].content.profile = Null]_vars
    /\ [][\A p, q \in Procs :
            (/\ frames[p].op = "set_styles" /\ frames[p].pc = "styles_insert"
             /\ GlobalStyles(db0) # EmptyBag
             /\ frames[q].op = "get_all_content" /\ frames[q].pc = "get_styles"
             /\ frames'[q].pc # "get_styles")
                => frames'[q].content.styles = default_styles]_vars
    /\ [](\A p, q \in Procs :
            (/\ frames[p].pc = "done" /\ frames[p].status = "inserted"
             /\ frames[q].op = "get_all_content") =>
                /\ frames[p].op = "set_profile" => Count(db, "profile") = 1
                /\ frames[p].op = "set_styles" => BagCardinality(GlobalStyles(db)) = 1)

\* C9 witness: the store held one profile before set_profile began and holds
\* one after it completed, and the overlapping get_all_content returned
\* profile = null.
C9_Witness ==
    \E p, q \in Procs :
        /\ frames[p].op = "set_profile" /\ frames[p].pc = "done"
        /\ frames[q].op = "get_all_content" /\ frames[q].pc = "done"
        /\ Count(db0, "profile") = 1
        /\ Count(db, "profile") = 1
        /\ frames[q].content.profile = Null

\* C10: when two overlapping seed calls on the empty store both answer "seeded"
\* the store holds the demo data twice: 10 eras, 10 projects, 6 skills,
\* 2 achievements, 2 profiles.
C10_ConcurrentSeedDuplicates ==
    (/\ db0 = EmptyStore
     /\ \A p \in Procs :
          frames[p].op = "seed" /\ frames[p].pc = "done" /\ frames[p].status = "seeded")
        => /\ Count(db, "era") = 10
           /\ Count(db, "project") = 10
           /\ Count(db, "skill") = 6
           /\ Count(db, "achievement") = 2
           /\ Count(db, "profile") = 2

\* C10 witness: both seed calls passed the emptiness check, both answered
\* "seeded", and every era is stored twice.
C10_Witness ==
    /\ db0 = EmptyStore
    /\ \A p \in Procs :
         frames[p].op = "seed" /\ frames[p].pc = "done" /\ frames[p].status = "seeded"
    /\ \A k \in 1..Len(eras) : CopiesIn(eras[k], db["era"]) = 2
    /\ Count(db, "era") = 10

=============================================================================
